---- MODULE Spec2Model ----
(***************************************************************************)
(* Session state machine of the Jarvis voice backend (backend/main.py):    *)
(* the websocket endpoint, the STT relay task                              *)
(* (receive_from_fireworks_aiohttp) and the pause watcher task             *)
(* (finalize_after_pause), which share the global dicts keyed by session   *)
(* id.  A connection takes str(time.time()) as its session id, so          *)
(* connections accepted at the same clock reading share one id.            *)
(*                                                                         *)
(* Scheduling is asyncio's: one event loop, a task runs without            *)
(* interruption from one await that really suspends to the next.  Every    *)
(* action below is one such run.  The Language Service calls of main.py    *)
(* are synchronous (services/llm_service.py), so they do not suspend; the  *)
(* Memory Store calls (save_memory_to_db, retrieve_memory_from_db) and     *)
(* asyncio.sleep do.                                                       *)
(*                                                                         *)
(* Time is kept in tenths of a second.  Timestamps are stored as the time  *)
(* elapsed since they were taken (an age), saturating just above the       *)
(* largest threshold they are compared with.  A sleeping task runs when    *)
(* its deadline is reached; tasks that are ready at the same instant run   *)
(* in any order.                                                           *)
(***************************************************************************)
EXTENDS Integers, Sequences, FiniteSets, TLC

\* ---------------------------------------------------------------- bounds
Conns == {"c1", "c2"}            \* websocket connections
Sessions == {"t1"}               \* session ids: clock readings at accept
MaxSegId == 2
MaxUtterances == 4
MaxBatches == 3
MaxSharedBatches == 1

\* ------------------------------------------------------ program constants
PAUSE_THRESHOLD == 2
SILENCE_THRESHOLD == 3
POLL_INTERVAL == 1
FORCE_MARGIN_TENTHS == 1
FORCE_WAIT_TENTHS == 2

Tenths(seconds) == 10 * seconds

\* saturation points of the stored ages
MaxIdle == Tenths(PAUSE_THRESHOLD) + FORCE_MARGIN_TENTHS
MaxGap == Tenths(SILENCE_THRESHOLD) + 1

Min(a, b) == IF a < b THEN a ELSE b
Max(a, b) == IF a < b THEN b ELSE a

\* ------------------------------------------------------- provider events
SegIds == 1..MaxSegId
\* a segment text is a string of characters: whitespace only, or a word
Texts == { <<" ">>, <<"a">> }
Segment == [id : SegIds, text : Texts]
\* the "segments" list of one provider event: empty, or one segment (a longer
\* list acts on the Utterance like its segments sent one by one)
Batches == { <<>> } \cup { << seg >> : seg \in Segment }

\* the "segments" lists of up to MaxBatchLen segments, ids repeated or not
MaxBatchLen == 2
Lists == UNION { [1..n -> Segment] : n \in 0..MaxBatchLen }

\* ------------------------------------------------------------ Python str
RECURSIVE lstrip(_)
lstrip(t) ==
  IF t = <<>> THEN <<>>
  ELSE IF Head(t) = " " THEN lstrip(Tail(t)) ELSE t

RECURSIVE rstrip(_)
rstrip(t) ==
  IF t = <<>> THEN <<>>
  ELSE IF t[Len(t)] = " " THEN rstrip(SubSeq(t, 1, Len(t) - 1)) ELSE t

strip(t) == rstrip(lstrip(t))

\* truth value of a str in a condition
Truthy(t) == t # <<>>

\* " ".join(values)
RECURSIVE join(_)
join(values) ==
  IF values = <<>> THEN <<>>
  ELSE IF Len(values) = 1 THEN values[1]
  ELSE values[1] \o <<" ">> \o join(Tail(values))

\* ----------------------------------------------------------- Python dict
\* The global dicts are functions whose DOMAIN is the set of keys present.
EmptyDict == [k \in {} |-> k]
Has(d, k) == k \in DOMAIN d
Put(d, k, v) == [x \in DOMAIN d \cup {k} |-> IF x = k THEN v ELSE d[x]]
Del(d, k) == [x \in DOMAIN d \ {k} |-> d[x]]

\* Utterance.segments is a dict whose iteration order is insertion order:
\* a sequence of [id, text] entries with distinct ids.
keys(d) == { d[i].id : i \in DOMAIN d }
values(d) == [i \in DOMAIN d |-> d[i].text]

\* (mutant) dict.setdefault: the text an id already has is kept
setdefault(d, k, v) ==
  IF k \in keys(d) THEN d ELSE Append(d, [id |-> k, text |-> v])

\* d[k] = v
setitem(d, k, v) ==
  IF k \in keys(d)
  THEN [i \in DOMAIN d |-> IF d[i].id = k THEN [id |-> k, text |-> v] ELSE d[i]]
  ELSE Append(d, [id |-> k, text |-> v])

\* (mutant) the new entries are appended, whether or not the id has one
update_append(d, other) == d \o other

\* dict.update: utterance.segments.update(new_segments)
RECURSIVE update(_, _)
update(d, other) ==
  IF other = <<>> THEN d
  ELSE update(setitem(d, other[1].id, other[1].text), Tail(other))

\* ------------------------------------------------------------- Utterance
\* (mutant) the ledger is assigned, not updated
set_assign(s, ids) == ids

\* set.update: processed_segment_ids[session_id].update(utterance.segment_ids)
set_update(s, ids) == s \cup ids

\* (mutant) the counter is left as it is
no_increment(n) == n

\* utterance_counter[session_id] += 1
increment(n) == n + 1

\* (mutant) the id given is dropped: every Utterance has id 0
UtteranceZero(id) ==
  [ id |-> 0, end_time |-> "None", segments |-> <<>>, segment_ids |-> {},
    text |-> <<>>, response |-> "", processed |-> FALSE ]

\* (mutant) an Utterance that is born processed
UtteranceProcessed(id) ==
  [ id |-> id, end_time |-> "None", segments |-> <<>>, segment_ids |-> {},
    text |-> <<>>, response |-> "", processed |-> TRUE ]

Utterance(id) ==
  [ id |-> id, end_time |-> "None", segments |-> <<>>, segment_ids |-> {},
    text |-> <<>>, response |-> "", processed |-> FALSE ]

\* (mutant) the ledger filter left out
RECURSIVE new_segments_unfiltered(_, _)
new_segments_unfiltered(segments, processed_ids) ==
  IF segments = <<>> THEN <<>>
  ELSE LET last == segments[Len(segments)]
           rest == new_segments_unfiltered(
                     SubSeq(segments, 1, Len(segments) - 1), processed_ids)
       IN setitem(rest, last.id, last.text)

\* new_segments of one batch: the segments whose id is not in the ledger
RECURSIVE new_segments(_, _)
new_segments(segments, processed_ids) ==
  IF segments = <<>> THEN <<>>
  ELSE LET last == segments[Len(segments)]
           rest == new_segments(SubSeq(segments, 1, Len(segments) - 1), processed_ids)
       IN IF last.id \notin processed_ids
          THEN setitem(rest, last.id, last.text)
          ELSE rest

\* (mutant) the batch reopens the Utterance it is applied to
ApplySegmentsReopens(u, segments, processed_ids) ==
  LET new == new_segments(segments, processed_ids)
      segs == update(u.segments, new)
  IN [u EXCEPT !.segment_ids = @ \cup keys(new),
               !.segments = segs,
               !.text = join(values(segs)),
               !.processed = FALSE]

\* the segment application of the relay, on one Utterance
ApplySegments(u, segments, processed_ids) ==
  LET new == new_segments(segments, processed_ids)
      segs == update(u.segments, new)
  IN [u EXCEPT !.segment_ids = @ \cup keys(new),
               !.segments = segs,
               !.text = join(values(segs))]

\* ----------------------------------------------------------------- state
VARIABLES
  ep_pc,                  \* position of websocket_endpoint, per connection
  session_id,             \* per connection, its session id ("None": not yet)
  instant,                \* the session id given out at the present clock
                          \* reading ("None": none yet)
  processing_tasks,       \* dict: session id -> pause watcher task (named by
                          \* the connection that created it)
  last_activity,          \* dict: session id -> age of the last-activity stamp
  utterance_counter,      \* dict: session id -> int
  conversation_history,   \* dict: session id -> list of ConversationTurn
  current_utterances,     \* dict: session id -> reference to an Utterance
  processed_segment_ids,  \* dict: session id -> set of segment ids (ledger)
  heap,                   \* per session id, every Utterance object created;
                          \* a reference is an index into heap[id]
  watcher_pc,             \* position of finalize_after_pause, per connection
  w_timer,                \* time left of the watcher's asyncio.sleep(1)
  w_turn,                 \* watcher locals across the Memory Store await
  relay_pc,               \* position of receive_from_fireworks_aiohttp
  r_timer,                \* time left of the relay's asyncio.sleep(0.2)
  r_msg,                  \* relay locals: current_utterance, the segments of
                          \* message_data, the age of `now`
  last_transcript_time,   \* relay local: age of the previous batch's `now`
  received,               \* number of provider events handled so far
  sent,                   \* per connection, what was sent to the client:
                          \* the number of messages and the last of them
  skipped,                \* the segment ids of the batch applied last that
                          \* the ledger filter left out
  last_audio,             \* per connection: an audio frame arrived at the
                          \* present instant
  dispatched,             \* per session id, the calls of process_transcription
  streamer,               \* the Response Streamer of one reply: its buffer,
                          \* the chunks flushed and the time since the last
                          \* flush
  pair                    \* one Utterance history handled twice, by the inline
                          \* relay logic of main.py and by the functions of
                          \* fireworks_whisper_service, with the ledger and the
                          \* last batch and split decisions

session_vars == << ep_pc, session_id, instant, processing_tasks, last_activity,
           utterance_counter, conversation_history, current_utterances,
           processed_segment_ids, heap, watcher_pc, w_timer, w_turn, relay_pc,
           r_timer, r_msg, last_transcript_time, received, skipped, sent,
           last_audio, dispatched >>
vars == << session_vars, streamer, pair >>

globals == << processing_tasks, last_activity, utterance_counter,
              conversation_history, current_utterances, processed_segment_ids >>
watcher_locals == << watcher_pc, w_timer, w_turn >>
relay_locals == << relay_pc, r_timer, r_msg, last_transcript_time, received,
                   skipped, sent >>

\* the Response Streamer before the reply stream starts
NoStream == [buffer |-> <<>>, chunks |-> <<>>, waited |-> 0, fragments |-> 0,
             ended |-> FALSE]

NoTurn == [utterance |-> 0, text |-> <<>>, intent |-> "None"]
NoMsg == [cu |-> 0, segments |-> <<>>, since |-> 0]
\* nothing has been sent to the client yet
NoneSent == [n |-> 0, kind |-> "none", text |-> <<>>]
\* the relay's last event was not valid JSON (no message_data came of it)
BadMsg == [cu |-> 0, segments |-> <<>>, since |-> -1]

\* both relays hold the first Utterance of a session, nothing applied yet
NoPair ==
  [ inline |-> Utterance(0), service |-> Utterance(0), ledger |-> {},
    batch |-> <<>>, inline_split |-> FALSE, service_split |-> FALSE ]

Init ==
  /\ ep_pc = [c \in Conns |-> "idle"]
  /\ session_id = [c \in Conns |-> "None"]
  /\ instant = "None"
  /\ processing_tasks = EmptyDict
  /\ last_activity = EmptyDict
  /\ utterance_counter = EmptyDict
  /\ conversation_history = EmptyDict
  /\ current_utterances = EmptyDict
  /\ processed_segment_ids = EmptyDict
  /\ heap = [id \in Sessions |-> <<>>]
  /\ watcher_pc = [c \in Conns |-> "none"]
  /\ w_timer = [c \in Conns |-> 0]
  /\ w_turn = [c \in Conns |-> NoTurn]
  /\ relay_pc = [c \in Conns |-> "none"]
  /\ r_timer = [c \in Conns |-> 0]
  /\ r_msg = [c \in Conns |-> NoMsg]
  /\ last_transcript_time = [c \in Conns |-> 0]
  /\ received = 0
  /\ skipped = [c \in Conns |-> {}]
  /\ sent = [c \in Conns |-> NoneSent]
  /\ last_audio = [c \in Conns |-> FALSE]
  /\ dispatched = [id \in Sessions |-> <<>>]
  /\ streamer = NoStream
  /\ pair = NoPair

\* Utterance objects not yet created that a suspended task is committed to
\* create when it resumes; keeps heap[id] within MaxUtterances
Pending(id) ==
  Cardinality({ c \in Conns : session_id[c] = id /\ watcher_pc[c] = "await_store" })
  + Cardinality({ c \in Conns : session_id[c] = id /\ relay_pc[c] = "force_wait" })

Room(id) == Len(heap[id]) + Pending(id) < MaxUtterances

\* ---------------------------------------------------- websocket_endpoint
\* the connections are named in the order of their acceptance
Before(c) == IF c = "c2" THEN {"c1"} ELSE {}

\* str(time.time()): the reading another connection took at this instant, or
\* a reading not taken before
Readings ==
  LET used == { session_id[c] : c \in Conns }
      fresh == Sessions \ used
  IN (IF instant = "None" THEN {} ELSE {instant})
     \cup (IF fresh = {} THEN {} ELSE {CHOOSE id \in fresh : TRUE})

\* accept, initialise the session's entries, start the pause watcher
Accept(c, id) ==
  /\ ep_pc[c] = "idle"
  /\ \A b \in Before(c) : ep_pc[b] # "idle"
  /\ id \in Readings
  /\ Room(id)
  /\ ep_pc' = [ep_pc EXCEPT ![c] = "connecting"]
  /\ session_id' = [session_id EXCEPT ![c] = id]
  /\ instant' = id
  /\ utterance_counter' = Put(utterance_counter, id, 0)
  /\ heap' = [heap EXCEPT ![id] = Append(@, Utterance(0))]
  /\ current_utterances' = Put(current_utterances, id, Len(heap[id]) + 1)
  /\ conversation_history' = Put(conversation_history, id, <<>>)
  /\ processed_segment_ids' = Put(processed_segment_ids, id, {})
  /\ last_activity' = Put(last_activity, id, 0)
  /\ processing_tasks' = Put(processing_tasks, id, c)
  /\ watcher_pc' = [watcher_pc EXCEPT ![c] = "sleep"]
  /\ w_timer' = [w_timer EXCEPT ![c] = Tenths(POLL_INTERVAL)]
  /\ UNCHANGED << w_turn, relay_locals, last_audio, dispatched, streamer, pair >>

\* the provider connection is up: the relay task starts
ProviderConnected(c) ==
  /\ ep_pc[c] = "connecting"
  /\ ep_pc' = [ep_pc EXCEPT ![c] = "streaming"]
  /\ relay_pc' = [relay_pc EXCEPT ![c] = "recv"]
  /\ last_transcript_time' = [last_transcript_time EXCEPT ![c] = 0]
  /\ UNCHANGED << session_id, instant, globals, heap, watcher_locals, r_timer,
                  r_msg, received, skipped, sent, last_audio, dispatched,
                  streamer, pair >>

\* Task.cancel(): the task, suspended at an await, is ended there by
\* CancelledError, which no `except Exception` of these tasks catches
cancel(pc) == IF pc \in {"done", "closed", "none"} THEN pc ELSE "cancelled"

\* (mutant) the entry is deleted without the test
present_unchecked(d, k) == TRUE

\* `if session_id in d:` of the finally block
present(d, k) == Has(d, k)

\* `del d[k]` raises KeyError when k is not in d
Raises(d, k) == present(d, k) /\ ~Has(d, k)

\* one step of the finally block: reached when no earlier step raised
discard(d, k, reached) ==
  IF reached /\ present(d, k) /\ Has(d, k) THEN Del(d, k) ELSE d

\* the finally block of connection c
TeardownSteps(c) ==
  LET id == session_id[c]
      r1 == ~Raises(processing_tasks, id)
      r2 == r1 /\ ~Raises(utterance_counter, id)
      r3 == r2 /\ ~Raises(current_utterances, id)
      r4 == r3 /\ ~Raises(processed_segment_ids, id)
      r5 == r4 /\ ~Raises(conversation_history, id)
      r6 == r5 /\ ~Raises(last_activity, id)
  IN /\ ep_pc' = [ep_pc EXCEPT ![c] = IF r6 THEN "closed" ELSE "error"]
     /\ relay_pc' = [relay_pc EXCEPT ![c] =
           IF ep_pc[c] = "streaming" THEN cancel(@) ELSE @]
     /\ watcher_pc' =
           IF present(processing_tasks, id) /\ Has(processing_tasks, id)
           THEN [watcher_pc EXCEPT ![processing_tasks[id]] = cancel(@)]
           ELSE watcher_pc
     /\ processing_tasks' = discard(processing_tasks, id, TRUE)
     /\ utterance_counter' = discard(utterance_counter, id, r1)
     /\ current_utterances' = discard(current_utterances, id, r2)
     /\ processed_segment_ids' = discard(processed_segment_ids, id, r3)
     /\ conversation_history' = discard(conversation_history, id, r4)
     /\ last_activity' = discard(last_activity, id, r5)
     /\ UNCHANGED << session_id, instant, heap, w_timer, w_turn, r_timer, r_msg,
                     last_transcript_time, received, skipped, sent,
                     dispatched >>

\* the client disconnects, or connecting to the provider fails
Teardown(c) ==
  /\ ep_pc[c] \in {"connecting", "streaming"}
  /\ TeardownSteps(c)
  /\ UNCHANGED << last_audio, streamer, pair >>

\* the client sends an audio frame: it is forwarded to the provider; on a
\* closed provider connection send_bytes raises and the finally block runs
AudioFrame(c) ==
  /\ ep_pc[c] = "streaming"
  /\ ~last_audio[c]
  /\ last_audio' = [last_audio EXCEPT ![c] = TRUE]
  /\ IF relay_pc[c] = "closed"
     THEN TeardownSteps(c)
     ELSE UNCHANGED << ep_pc, session_id, instant, globals, heap,
                       watcher_locals, relay_locals, dispatched >>
  /\ UNCHANGED << streamer, pair >>

\* (mutant) the text of the Utterance is not looked at
ShouldFinalizeAnyText(u) == ~u.processed

\* ---------------------------------------------------------- pause watcher
\* the finalize condition of the watcher on the Utterance it looks at
ShouldFinalize(u) == ~u.processed /\ Truthy(strip(u.text))

\* (mutant) the flag is not set
MarkProcessedNoFlag(u) == [u EXCEPT !.end_time = "set"]

\* "Mark as processed to prevent duplicate processing"
MarkProcessed(u) == [u EXCEPT !.processed = TRUE, !.end_time = "set"]

\* What process_transcription does before it either returns or suspends:
\*   "Neither"  detect_intent answered Neither; returns without suspending
\*   "error"    a Language Service call raised; caught, returns {"error"}
\*   "Save"     suspends in save_memory_to_db
\*   "Retrieve" suspends in retrieve_memory_from_db
Intents == {"Neither", "error", "Save", "Retrieve"}
Suspends(intent) == intent \in {"Save", "Retrieve"}

\* how the Memory Store call ends.  save_memory_to_db does not await
\* client.embeddings.create, so reading .data of the coroutine it gets raises
\* AttributeError, which is logged and raised again: the call suspends only
\* to close its database session and then raises.  retrieve_memory_from_db
\* awaits the embedding and the query: it returns memories ("some"), returns
\* the empty list ("none") or fails inside ("raised")
Outcomes(intent) ==
  IF intent = "Save" THEN {"raised"} ELSE {"some", "none", "raised"}

\* the watcher of c is inside save_memory_to_db, which does no network
\* wait: it resumes in the event loop's next iterations
Momentary(c) == watcher_pc[c] = "await_store" /\ w_turn[c].intent = "Save"

\* the result of process_transcription once the Memory Store call is over: a
\* raising save is caught and gives {"error"}; retrieve_memory_from_db
\* swallows its own errors and returns []
\*   "RetrieveNone": {"intent": "Retrieve", "results": []}
StoreResult(intent, outcome) ==
  IF intent = "Save"
  THEN IF outcome = "ok" THEN "Save" ELSE "error"
  ELSE IF outcome = "some" THEN "Retrieve" ELSE "RetrieveNone"

NO_MEMORIES_REPLY ==
  "I searched your memories but couldn't find anything matching your request. Is there something else I can help you with?"

\* (mutant) no shortcut for an empty result list
ReplyAlwaysGenerated(result) ==
  IF result = "Save" THEN "acknowledge"
  ELSE IF result \in {"Retrieve", "RetrieveNone"} THEN "recall"
  ELSE "chat"

\* the reply generate_conversational_response gives for a result: it
\* branches on result.get("intent", "Neither"), so an {"error"} result is
\* answered like a Neither one; a Retrieve result without memories gets the
\* fixed string, the others a chat completion
Reply(result) ==
  IF result = "Save" THEN "acknowledge"
  ELSE IF result = "Retrieve" THEN "recall"
  ELSE IF result = "RetrieveNone" THEN NO_MEMORIES_REPLY
  ELSE "chat"

\* does the reply for this result take a chat completion call (which may
\* raise)
CallsModel(result) == result # "RetrieveNone"

\* (mutant) the text is read from the Utterance when the turn is appended
TurnTextLive(u, text) == u.text

\* the utterance text of the ConversationTurn: the local `text`, taken from
\* the Utterance u before process_transcription was awaited
TurnText(u, text) == text

\* the ghost log of calls: one entry per call of process_transcription
Call(utterance, text, ids, intent, result) ==
  [utterance |-> utterance, text |-> text, ids |-> ids, intent |-> intent,
   result |-> result]

SetResult(log, utterance, result) ==
  [k \in DOMAIN log |->
     IF log[k].utterance = utterance /\ log[k].result = "pending"
     THEN [log[k] EXCEPT !.result = result] ELSE log[k]]

\* finalize_after_pause from the return of process_transcription to the end
\* of the if-block.  reply_ok: generate_conversational_response returned.
\* raised: an exception left the block (caught by the handler outside the
\* loop).
FinishTurn(id, hp, utterance, text, result, reply_ok) ==
  IF ~reply_ok
  THEN [ heap |-> hp, history |-> conversation_history,
         ledger |-> processed_segment_ids, counter |-> utterance_counter,
         current |-> current_utterances, raised |-> TRUE ]
  ELSE
    LET h1 == [hp EXCEPT ![id][utterance].response = Reply(result)]
        hist0 == IF Has(conversation_history, id) THEN conversation_history
                 ELSE Put(conversation_history, id, <<>>)
        hist == [hist0 EXCEPT ![id] =
                   Append(@, [utterance |-> TurnText(h1[id][utterance], text),
                              response |-> Reply(result)])]
        led0 == IF Has(processed_segment_ids, id) THEN processed_segment_ids
                ELSE Put(processed_segment_ids, id, {})
        led == [led0 EXCEPT ![id] = set_update(@, h1[id][utterance].segment_ids)]
    IN IF ~Has(utterance_counter, id)
       THEN [ heap |-> h1, history |-> hist, ledger |-> led,
              counter |-> utterance_counter, current |-> current_utterances,
              raised |-> TRUE ]
       ELSE
         LET cnt == [utterance_counter EXCEPT ![id] = increment(@)]
             h2 == [h1 EXCEPT ![id] = Append(@, Utterance(cnt[id]))]
         IN [ heap |-> h2, history |-> hist, ledger |-> led, counter |-> cnt,
              current |-> Put(current_utterances, id, Len(h2[id])),
              raised |-> FALSE ]

\* the end of one loop iteration: leave the loop on an exception or when the
\* session is gone (then the finally block runs), else sleep again
LoopEnd(c, raised, current) ==
  IF raised \/ ~Has(current, session_id[c])
  THEN /\ watcher_pc' = [watcher_pc EXCEPT ![c] = "done"]
       /\ w_timer' = [w_timer EXCEPT ![c] = 0]
       /\ processing_tasks' = Del(processing_tasks, session_id[c])
  ELSE /\ watcher_pc' = [watcher_pc EXCEPT ![c] = "sleep"]
       /\ w_timer' = [w_timer EXCEPT ![c] = Tenths(POLL_INTERVAL)]
       /\ UNCHANGED processing_tasks

Commit(c, r) ==
  /\ heap' = r.heap
  /\ conversation_history' = r.history
  /\ processed_segment_ids' = r.ledger
  /\ utterance_counter' = r.counter
  /\ current_utterances' = r.current
  /\ LoopEnd(c, r.raised, r.current)

\* the replies that can come of a result: returned (TRUE) or raised (FALSE)
ReplyOutcomes(result) == IF CallsModel(result) THEN BOOLEAN ELSE {TRUE}

\* the watcher wakes from asyncio.sleep(1) and runs to its next suspension
WatcherPoll(c) ==
  /\ watcher_pc[c] = "sleep"
  /\ w_timer[c] = 0
  /\ LET id == session_id[c]
         time_since_last ==
           IF Has(last_activity, id) THEN last_activity[id] ELSE MaxIdle
         looks == time_since_last >= Tenths(PAUSE_THRESHOLD)
                  /\ Has(current_utterances, id)
         utterance == current_utterances[id]
     IN IF looks /\ ShouldFinalize(heap[id][utterance])
        THEN
          /\ Room(id)
          /\ \E intent \in Intents :
               LET hp == [heap EXCEPT ![id][utterance] = MarkProcessed(@)]
                   text == heap[id][utterance].text
               IN IF Suspends(intent)
                  THEN /\ heap' = hp
                       /\ dispatched' = [dispatched EXCEPT ![id] =
                            Append(@, Call(utterance, text, heap[id][utterance].segment_ids,
                                      intent, "pending"))]
                       /\ watcher_pc' = [watcher_pc EXCEPT ![c] = "await_store"]
                       /\ w_turn' = [w_turn EXCEPT ![c] =
                            [utterance |-> utterance, text |-> text,
                             intent |-> intent]]
                       /\ UNCHANGED << globals, w_timer >>
                  ELSE /\ dispatched' = [dispatched EXCEPT ![id] =
                            Append(@, Call(utterance, text, heap[id][utterance].segment_ids,
                                      intent, intent))]
                       /\ \E reply_ok \in ReplyOutcomes(intent) :
                            Commit(c, FinishTurn(id, hp, utterance, text, intent,
                                                 reply_ok))
                       /\ UNCHANGED << last_activity, w_turn >>
        ELSE
          /\ LoopEnd(c, FALSE, current_utterances)
          /\ UNCHANGED << last_activity, utterance_counter, conversation_history,
                          current_utterances, processed_segment_ids, heap,
                          w_turn, dispatched >>
  /\ UNCHANGED << ep_pc, session_id, instant, relay_locals, last_audio,
                  streamer, pair >>

\* the Memory Store call returns or raises; the turn runs to its end
WatcherResume(c) ==
  /\ watcher_pc[c] = "await_store"
  /\ \E outcome \in Outcomes(w_turn[c].intent) :
       LET id == session_id[c]
           result == StoreResult(w_turn[c].intent, outcome)
       IN /\ dispatched' = [dispatched EXCEPT ![id] =
               SetResult(@, w_turn[c].utterance, result)]
          /\ \E reply_ok \in ReplyOutcomes(result) :
               Commit(c, FinishTurn(id, heap, w_turn[c].utterance,
                                    w_turn[c].text, result, reply_ok))
  /\ w_turn' = [w_turn EXCEPT ![c] = NoTurn]
  /\ UNCHANGED << ep_pc, session_id, instant, last_activity, relay_locals,
                  last_audio, streamer, pair >>

\* -------------------------------------------------------------- STT relay
\* an exception in the relay's loop body is caught outside the loop: the
\* task ends
RelayDies(c) ==
  /\ relay_pc' = [relay_pc EXCEPT ![c] = "done"]
  /\ r_timer' = [r_timer EXCEPT ![c] = 0]
  /\ r_msg' = [r_msg EXCEPT ![c] = NoMsg]
  /\ UNCHANGED << last_transcript_time, skipped, sent >>

\* (mutant) a gap equal to the threshold counts as silence
ShouldSplitAtThreshold(time_since_last, u) ==
  time_since_last >= Tenths(SILENCE_THRESHOLD) /\ Truthy(strip(u.text))

\* should the relay start a new utterance: silence, and text to close
ShouldSplit(time_since_last, u) ==
  time_since_last > Tenths(SILENCE_THRESHOLD) /\ Truthy(strip(u.text))

\* the stamp written to force the watcher: now - PAUSE_THRESHOLD - 0.1
ForcedActivity == Tenths(PAUSE_THRESHOLD) + FORCE_MARGIN_TENTHS

\* one more message on the client's websocket
Send(log, msg) == [n |-> log.n + 1, kind |-> msg.kind, text |-> msg.text]

\* (mutant) the text is sent before the batch is applied
InterimBefore(before, after) == [kind |-> "transcript", text |-> before.text]

\* send_text(current_utterance.text): the interim transcript of a batch, for
\* the Utterance as it was before and as it is after the batch is applied
Interim(before, after) == [kind |-> "transcript", text |-> after.text]

\* send_text("Transcription completed")
Completed == [kind |-> "completed", text |-> <<>>]

\* (mutant) no break after the final checkpoint
AfterFinalGoesOn == "recv"

\* where the relay is after the final checkpoint: `break` ends its loop
AfterFinal == "done"

\* from `last_transcript_time = now` to the end of the batch's handling, on
\* the Utterance cu of heap hp; since: the age of the batch's `now`
ApplyBatch(c, hp, cu, segments, since) ==
  LET id == session_id[c]
      ledger == IF Has(processed_segment_ids, id)
                THEN processed_segment_ids[id] ELSE {}
  IN /\ heap' = [hp EXCEPT ![id][cu] = ApplySegments(@, segments, ledger)]
     /\ sent' = [sent EXCEPT ![c] =
           Send(@, Interim(hp[id][cu], ApplySegments(hp[id][cu], segments, ledger)))]
     /\ skipped' = [skipped EXCEPT ![c] =
           keys(segments) \ keys(new_segments(segments, ledger))]
     /\ last_transcript_time' = [last_transcript_time EXCEPT ![c] = since]
     /\ last_activity' = Put(last_activity, id, 0)
     /\ relay_pc' = [relay_pc EXCEPT ![c] = "recv"]
     /\ r_timer' = [r_timer EXCEPT ![c] = 0]
     /\ r_msg' = [r_msg EXCEPT ![c] = NoMsg]

\* "Create a new utterance", then the batch goes to it
SplitAndApply(c, hp, segments, since) ==
  LET id == session_id[c]
  IN IF ~Has(utterance_counter, id)
     THEN /\ RelayDies(c)
          /\ heap' = hp
          /\ UNCHANGED << last_activity, utterance_counter, current_utterances >>
     ELSE LET cnt == increment(utterance_counter[id])
              h1 == [hp EXCEPT ![id] = Append(@, Utterance(cnt))]
          IN /\ utterance_counter' = [utterance_counter EXCEPT ![id] = cnt]
             /\ current_utterances' = Put(current_utterances, id, Len(h1[id]))
             /\ ApplyBatch(c, h1, Len(h1[id]), segments, since)

\* two connections hold the same session id
Shared ==
  \E a, b \in Conns : a # b /\ session_id[a] # "None" /\ session_id[a] = session_id[b]

\* the number of provider events the model follows: fewer once a session id
\* is shared
Budget == IF Shared THEN MaxSharedBatches ELSE MaxBatches

\* a provider event with "segments" arrives
RelaySegments(c, segments) ==
  /\ relay_pc[c] = "recv"
  /\ received < Budget
  /\ received' = received + 1
  /\ LET id == session_id[c]
     IN IF ~Has(current_utterances, id)
        THEN /\ RelayDies(c)
             /\ UNCHANGED << last_activity, utterance_counter,
                             current_utterances, heap >>
        ELSE
          LET time_since_last == last_transcript_time[c]
              cu == current_utterances[id]
          IN IF ShouldSplit(time_since_last, heap[id][cu])
             THEN /\ Room(id)
                  /\ IF ~heap[id][cu].processed
                     THEN \* force the watcher and wait 0.2 s for it
                          /\ heap' = [heap EXCEPT ![id][cu].end_time = "set"]
                          /\ last_activity' = Put(last_activity, id, ForcedActivity)
                          /\ relay_pc' = [relay_pc EXCEPT ![c] = "force_wait"]
                          /\ r_timer' = [r_timer EXCEPT ![c] = FORCE_WAIT_TENTHS]
                          /\ r_msg' = [r_msg EXCEPT ![c] =
                               [cu |-> cu, segments |-> segments, since |-> 0]]
                          /\ UNCHANGED << utterance_counter, current_utterances,
                                          last_transcript_time, skipped, sent >>
                     ELSE SplitAndApply(c, heap, segments, 0)
             ELSE /\ ApplyBatch(c, heap, cu, segments, 0)
                  /\ UNCHANGED << utterance_counter, current_utterances >>
  /\ UNCHANGED << ep_pc, session_id, instant, processing_tasks,
                  conversation_history, processed_segment_ids, watcher_locals,
                  last_audio, dispatched, streamer, pair >>

\* the relay wakes from asyncio.sleep(0.2)
RelayAfterWait(c) ==
  /\ relay_pc[c] = "force_wait"
  /\ r_timer[c] = 0
  /\ SplitAndApply(c, heap, r_msg[c].segments, r_msg[c].since)
  /\ UNCHANGED << ep_pc, session_id, instant, processing_tasks,
                  conversation_history, processed_segment_ids, watcher_locals,
                  received, last_audio, dispatched, streamer, pair >>

\* the provider's final checkpoint: notify the client and stop
RelayFinal(c) ==
  /\ relay_pc[c] = "recv"
  /\ received < Budget
  /\ received' = received + 1
  /\ sent' = [sent EXCEPT ![c] = Send(@, Completed)]
  /\ relay_pc' = [relay_pc EXCEPT ![c] = AfterFinal]
  /\ UNCHANGED << ep_pc, session_id, instant, globals, heap, watcher_locals,
                  r_timer, r_msg, last_transcript_time, skipped, last_audio,
                  dispatched, streamer, pair >>

\* a provider text event that is not valid JSON: json.loads raises in the
\* loop body, and the only handler is the one outside the loop
RelayMalformed(c) ==
  /\ relay_pc[c] = "recv"
  /\ received < Budget
  /\ received' = received + 1
  /\ relay_pc' = [relay_pc EXCEPT ![c] = "done"]
  /\ r_msg' = [r_msg EXCEPT ![c] = BadMsg]
  /\ UNCHANGED << ep_pc, session_id, instant, globals, heap, watcher_locals,
                  r_timer, last_transcript_time, skipped, sent, last_audio,
                  dispatched, streamer, pair >>

\* the provider connection closes or reports an error: the relay's loop
\* ends (the iteration is over, or `break` on WSMsgType.ERROR)
ProviderCloses(c) ==
  /\ relay_pc[c] = "recv"
  /\ received < Budget
  /\ received' = received + 1
  /\ relay_pc' = [relay_pc EXCEPT ![c] = "closed"]
  /\ UNCHANGED << ep_pc, session_id, instant, globals, heap, watcher_locals,
                  r_timer, r_msg, last_transcript_time, skipped, sent,
                  last_audio,
                  dispatched, streamer, pair >>

\* ------------------------------------------------------------------ time
\* the time left of every asyncio.sleep in progress
Deadlines ==
  { w_timer[c] : c \in { x \in Conns : watcher_pc[x] = "sleep" } }
  \cup { r_timer[c] : c \in { x \in Conns : relay_pc[x] = "force_wait" } }

Steps == 1..Tenths(POLL_INTERVAL)

\* d tenths of a second pass, up to the next deadline (a poll interval when
\* no task sleeps).  The event loop runs the sleepers in the order of their
\* deadlines: time does not pass the deadline of a task that sleeps, nor a
\* task that is ready to run.
Tick(d) ==
  /\ \E c \in Conns : ep_pc[c] \in {"connecting", "streaming"}
                       \/ watcher_pc[c] \in {"sleep", "await_store"}
  /\ \A t \in Deadlines : t >= d
  /\ \A c \in Conns : ~Momentary(c)
  /\ IF Deadlines = {} THEN d = Tenths(POLL_INTERVAL) ELSE d \in Deadlines
  /\ instant' = "None"
  /\ last_activity' =
       [id \in DOMAIN last_activity |-> Min(last_activity[id] + d, MaxIdle)]
  /\ last_transcript_time' =
       [c \in Conns |-> IF relay_pc[c] \in {"recv", "force_wait"}
                        THEN Min(last_transcript_time[c] + d, MaxGap)
                        ELSE last_transcript_time[c]]
  /\ r_msg' = [c \in Conns |-> IF relay_pc[c] = "force_wait"
                 THEN [r_msg[c] EXCEPT !.since = Min(@ + d, MaxGap)]
                 ELSE r_msg[c]]
  /\ last_audio' = [c \in Conns |-> FALSE]
  /\ w_timer' = [c \in Conns |-> Max(w_timer[c] - d, 0)]
  /\ r_timer' = [c \in Conns |-> Max(r_timer[c] - d, 0)]
  /\ UNCHANGED << ep_pc, session_id, processing_tasks, utterance_counter,
                  conversation_history, current_utterances,
                  processed_segment_ids, heap, watcher_pc, w_turn, relay_pc,
                  received, skipped, sent, dispatched, streamer, pair >>

\* ------------------------------------------------------------------ spec
Next ==
  \/ \E c \in Conns, id \in Sessions : Accept(c, id)
  \/ \E c \in Conns : ProviderConnected(c)
  \/ \E c \in Conns : Teardown(c)
  \/ \E c \in Conns : AudioFrame(c)
  \/ \E c \in Conns : WatcherPoll(c)
  \/ \E c \in Conns : WatcherResume(c)
  \/ \E c \in Conns, segments \in Batches : RelaySegments(c, segments)
  \/ \E c \in Conns : RelayAfterWait(c)
  \/ \E c \in Conns : RelayFinal(c)
  \/ \E c \in Conns : RelayMalformed(c)
  \/ \E c \in Conns : ProviderCloses(c)
  \/ \E d \in Steps : Tick(d)

Spec == Init /\ [][Next]_vars


\* What the event loop and the services guarantee: time passes, a task whose
\* sleep is over runs, a Memory Store call returns or raises.  Nothing is
\* assumed of the client or of the provider.
FairSpec ==
  /\ Spec
  /\ WF_vars(\E d \in Steps : Tick(d))
  /\ \A c \in Conns : /\ WF_vars(WatcherPoll(c))
                      /\ WF_vars(WatcherResume(c))
                      /\ WF_vars(RelayAfterWait(c))

\* ---------------------------------------- Response Streamer (sentence chunker)
\* The streamer buffers the fragments of one reply stream and flushes
\* chunks of it to the Speech Synthesizer.  Lengths are counted in
\* characters, the wait in units of time since the last flush.
MaxFragments == 3
MinLength == 2
MaxLength == 4
MaxWait == 2
SmallMinLength == 1

Terminators == {".", "!", "?", ":", ";"}
\* the characters of the replies followed: a letter, a terminator, a comma
Chars == {"a", ".", ","}
\* the fragments a reply stream can deliver: one or two characters
Fragments ==
  { << a >> : a \in Chars } \cup { << a, b >> : a \in Chars, b \in Chars }

EndsAtTerminator(buffer) ==
  buffer # <<>> /\ buffer[Len(buffer)] \in Terminators

\* (mutant) a terminator flushes a buffer of any length
FlushNowAnyLength(buffer, waited) ==
  \/ EndsAtTerminator(buffer)
  \/ Len(buffer) > MaxLength
  \/ waited > MaxWait /\ Len(buffer) > SmallMinLength

\* the flush decision, evaluated after each append
FlushNow(buffer, waited) ==
  \/ EndsAtTerminator(buffer) /\ Len(buffer) >= MinLength
  \/ Len(buffer) > MaxLength
  \/ waited > MaxWait /\ Len(buffer) > SmallMinLength

\* the commas past the midpoint of the buffer
CommaCuts(buffer) ==
  { i \in DOMAIN buffer : buffer[i] = "," /\ 2 * i > Len(buffer) }

\* where a flush cuts the buffer: at the last comma past the midpoint when
\* no terminator was found, else at its end
Cut(buffer) ==
  IF ~EndsAtTerminator(buffer) /\ CommaCuts(buffer) # {}
  THEN CHOOSE i \in CommaCuts(buffer) : \A j \in CommaCuts(buffer) : j <= i
  ELSE Len(buffer)

\* the chunk flushed and the remainder carried forward
Flush(buffer) ==
  [ chunk |-> SubSeq(buffer, 1, Cut(buffer)),
    rest |-> SubSeq(buffer, Cut(buffer) + 1, Len(buffer)) ]

\* a fragment of the reply arrives: append, then the flush decision
OnFragment(f) ==
  /\ ~streamer.ended
  /\ streamer.fragments < MaxFragments
  /\ LET buffer == streamer.buffer \o f
     IN streamer' =
          IF FlushNow(buffer, streamer.waited)
          THEN [streamer EXCEPT !.buffer = Flush(buffer).rest,
                                !.chunks = Append(@, Flush(buffer).chunk),
                                !.waited = 0,
                                !.fragments = @ + 1]
          ELSE [streamer EXCEPT !.buffer = buffer, !.fragments = @ + 1]
  /\ UNCHANGED << session_vars, pair >>

\* time passes between two fragments
Elapse ==
  /\ ~streamer.ended
  /\ streamer.waited <= MaxWait
  /\ streamer' = [streamer EXCEPT !.waited = @ + 1]
  /\ UNCHANGED << session_vars, pair >>

\* the reply stream is exhausted: what is left is flushed unconditionally
EndOfStream ==
  /\ ~streamer.ended
  /\ streamer' =
       [streamer EXCEPT !.ended = TRUE,
                        !.buffer = <<>>,
                        !.chunks = IF streamer.buffer = <<>> THEN @
                                   ELSE Append(@, streamer.buffer)]
  /\ UNCHANGED << session_vars, pair >>

StreamerNext ==
  \/ \E f \in Fragments : OnFragment(f)
  \/ Elapse
  \/ EndOfStream

StreamerSpec == Init /\ [][StreamerNext]_vars

\* ------------------------------------------- fireworks_whisper_service.py
\* The refactored relay: should_create_new_utterance and process_segments,
\* translated from the service module, and run beside the inline logic of
\* main.py on the same batches.

\* SILENCE_THRESHOLD of the service module, in seconds
STT_SILENCE_THRESHOLD == 2

\* the values of `a and b` with a bool a and a str b
PyFalse == [ type |-> "bool", text |-> <<>> ]
PyStr(t) == [ type |-> "str", text |-> t ]
\* truth value of such a value in a condition
bool(v) == v.type = "str" /\ Truthy(v.text)

\* return time_since_last > SILENCE_THRESHOLD and current_utterance.text.strip()
should_create_new_utterance(time_since_last, current_utterance) ==
  IF time_since_last > Tenths(STT_SILENCE_THRESHOLD)
  THEN PyStr(strip(current_utterance.text))
  ELSE PyFalse

\* the for loop of process_segments, segment by segment: new_segments and the
\* Utterance's segment_ids after the segments left to iterate
RECURSIVE process_segments_for(_, _, _)
process_segments_for(segments, acc, processed_ids) ==
  IF segments = <<>> THEN acc
  ELSE LET segment == Head(segments)
           segment_id == segment.id
       IN process_segments_for(
            Tail(segments),
            IF segment_id \notin processed_ids
            THEN [ new_segments |-> setitem(acc.new_segments, segment_id, segment.text),
                   segment_ids |-> acc.segment_ids \cup {segment_id} ]
            ELSE acc,
            processed_ids)

\* (mutant) the text is joined before the new segments are merged
process_segments_stale(segments, utterance, processed_ids) ==
  LET done == process_segments_for(
                segments,
                [ new_segments |-> <<>>, segment_ids |-> utterance.segment_ids ],
                processed_ids)
  IN [utterance EXCEPT !.segment_ids = done.segment_ids,
                       !.segments = update(@, done.new_segments),
                       !.text = join(values(utterance.segments))]

\* process_segments: the Utterance as the call leaves it
process_segments(segments, utterance, processed_ids) ==
  LET done == process_segments_for(
                segments,
                [ new_segments |-> <<>>, segment_ids |-> utterance.segment_ids ],
                processed_ids)
      merged == update(utterance.segments, done.new_segments)
  IN [utterance EXCEPT !.segment_ids = done.segment_ids,
                       !.segments = merged,
                       !.text = join(values(merged))]

\* the gaps tried, as distances in tenths of a second from the silence
\* threshold of the module that tests it
Offsets == { -1, 0, 1 }

\* the split decision of the inline logic of main.py and the Utterance the
\* batch then goes to
InlineSplit(offset) == ShouldSplit(Tenths(SILENCE_THRESHOLD) + offset, pair.inline)
InlineTarget(offset) ==
  IF InlineSplit(offset) THEN Utterance(increment(pair.inline.id)) ELSE pair.inline

\* the same of the service's functions
ServiceSplit(offset) ==
  bool(should_create_new_utterance(Tenths(STT_SILENCE_THRESHOLD) + offset, pair.service))
ServiceTarget(offset) ==
  IF ServiceSplit(offset) THEN Utterance(increment(pair.service.id)) ELSE pair.service

\* one provider event handled by both relays
PairBatch(segments, offset) ==
  /\ InlineSplit(offset) => pair.inline.id + 1 < MaxUtterances
  /\ ServiceSplit(offset) => pair.service.id + 1 < MaxUtterances
  /\ pair' = [pair EXCEPT
       !.inline = ApplySegments(InlineTarget(offset), segments, pair.ledger),
       !.service = process_segments(segments, ServiceTarget(offset), pair.ledger),
       !.batch = segments,
       !.inline_split = InlineSplit(offset),
       !.service_split = ServiceSplit(offset)]
  /\ UNCHANGED << session_vars, streamer >>

\* a segment id enters the ledger of the session
PairLedger(segment_id) ==
  /\ segment_id \notin pair.ledger
  /\ pair' = [pair EXCEPT !.ledger = set_update(@, {segment_id})]
  /\ UNCHANGED << session_vars, streamer >>

PairNext ==
  \/ \E segments \in Lists : \E offset \in Offsets : PairBatch(segments, offset)
  \/ \E segment_id \in SegIds : PairLedger(segment_id)

PairSpec == Init /\ [][PairNext]_vars

\* ---------------------------------------------------------------- claims
Live(c) == ep_pc[c] \in {"connecting", "streaming"}
Refs(id) == 1..Len(heap[id])

\* the connections that were given the session id
Of(id) == { c \in Conns : session_id[c] = id }

\* the session id was given to one connection only
Sole(id) == Cardinality(Of(id)) <= 1

\* The pause watcher of c has not been ended by an exception.
WatcherRunning(c) == watcher_pc[c] # "done"

\* The session id is held by one connection whose pause watcher has not
\* been ended by an exception.  The claims C2, C3, C5 to C9 are stated for
\* such sessions, so that what refutes them rests neither on the watcher's
\* death (C9) nor on a session id given out twice (C20).
Regular(id) == Sole(id) /\ \A c \in Of(id) : WatcherRunning(c)

\* how often Utterance i of id was handed to process_transcription
DispatchCount(log, id, i) ==
  Cardinality({ k \in DOMAIN log[id] : log[id][k].utterance = i })

\* C1: every Utterance is handed to turn processing at most once: a dispatch
\* happens only for an Utterance whose processed flag is false and which was
\* never dispatched, and it sets the flag; an attempt on a processed
\* Utterance dispatches nothing.
C1_ExactlyOnce ==
  [][ \A id \in Sessions : \A i \in Refs(id) :
        DispatchCount(dispatched', id, i) # DispatchCount(dispatched, id, i)
        => /\ ~heap[id][i].processed
           /\ heap'[id][i].processed
           /\ DispatchCount(dispatched, id, i) = 0
           /\ DispatchCount(dispatched', id, i) = 1 ]_vars

\* the relay's silence path met a processed Utterance (its turn in flight),
\* opened the next one, and the Utterance is still dispatched once
C1_Witness ==
  \E c \in Conns :
    /\ watcher_pc[c] = "await_store"
    /\ Has(current_utterances, session_id[c])
    /\ current_utterances[session_id[c]] # w_turn[c].utterance
    /\ DispatchCount(dispatched, session_id[c], w_turn[c].utterance) = 1

\* C2: once the watcher has marked an Utterance processed, no segment batch
\* is written into it, also while its turn is still awaiting: its segment
\* map and claimed ids are frozen (the batch goes to the next Utterance).
C2_AtomicSwap ==
  [][ \A id \in Sessions : \A i \in Refs(id) :
        heap[id][i].processed /\ Regular(id)
        => /\ heap'[id][i].segments = heap[id][i].segments
           /\ heap'[id][i].segment_ids = heap[id][i].segment_ids ]_vars

\* C3: no segment id is in the claimed-id set of two Utterances of a session.
C3_NoDoubleClaim ==
  \A id \in Sessions : \A i, j \in Refs(id) :
    i # j /\ Regular(id)
    => heap[id][i].segment_ids \cap heap[id][j].segment_ids = {}

\* the entries of a segment map for one id
Entries(d, id) == { d[i] : i \in { k \in DOMAIN d : d[k].id = id } }

\* C4: a segment whose id is in the session's ledger when its batch is
\* applied is written into no Utterance: no segment map entry for that id
\* changes and no Utterance newly claims the id.
C4_LedgerFilter ==
  [][ \A s \in DOMAIN processed_segment_ids :
        \A id \in processed_segment_ids[s] : \A i \in 1..Len(heap'[s]) :
          LET before == IF i <= Len(heap[s]) THEN heap[s][i] ELSE Utterance(0)
          IN /\ (id \in heap'[s][i].segment_ids) = (id \in before.segment_ids)
             /\ Entries(heap'[s][i].segments, id) = Entries(before.segments, id)
    ]_vars

\* the batch just applied carried an id of the ledger, and the current
\* Utterance, which it was applied to, did not take it
C4_Witness ==
  \E c \in Conns :
    LET s == session_id[c]
    IN /\ Has(processed_segment_ids, s)
       /\ relay_pc[c] = "recv"
       /\ last_activity[s] = 0
       /\ \E id \in skipped[c] :
            /\ id \in processed_segment_ids[s]
            /\ id \notin heap[s][current_utterances[s]].segment_ids

\* C5: at most one Utterance of a session has processed = false.
C5_OneOpenUtterance ==
  \A id \in Sessions :
    Regular(id)
    => Cardinality({ i \in Refs(id) : ~heap[id][i].processed }) <= 1

\* the texts of a segment map in ascending order of segment id
AscendingTexts(d) ==
  LET F[k \in 0..MaxSegId] ==
        IF k = 0 THEN <<>>
        ELSE IF k \in keys(d)
             THEN Append(F[k - 1], (CHOOSE e \in Entries(d, k) : TRUE).text)
             ELSE F[k - 1]
  IN F[MaxSegId]

\* C6: an Utterance's text is the concatenation of its segments' texts in
\* ascending order of segment id.
C6_AscendingText ==
  \A id \in Sessions : \A i \in Refs(id) :
    Sole(id) => heap[id][i].text = join(AscendingTexts(heap[id][i].segments))

\* the relay of c opens a new Utterance in this step
RelayOpens(c) ==
  /\ session_id[c] # "None"
  /\ Len(heap'[session_id[c]]) = Len(heap[session_id[c]]) + 1
  /\ relay_pc[c] \in {"recv", "force_wait"}
  /\ watcher_pc' = watcher_pc
  /\ w_timer' = w_timer
  /\ ep_pc' = ep_pc

\* C7: when the relay opens Utterance N+1 on a silence gap, the Utterance N
\* it closes is processed and has been dispatched to turn processing.
C7_SilenceBoundary ==
  [][ \A c \in Conns :
        RelayOpens(c) /\ Regular(session_id[c])
        => LET id == session_id[c]
               n == IF relay_pc[c] = "force_wait" THEN r_msg[c].cu
                    ELSE current_utterances[id]
           IN /\ heap'[id][n].processed
              /\ DispatchCount(dispatched', id, n) >= 1 ]_vars

\* C8: while the turn of a finalized Utterance is in flight, the session's
\* current Utterance is already a fresh one.
C8_WatcherNotBlocked ==
  \A c \in Conns :
    /\ watcher_pc[c] = "await_store"
    /\ Sole(session_id[c])
    /\ Has(current_utterances, session_id[c])
    => current_utterances[session_id[c]] # w_turn[c].utterance

\* C9: the pause watcher leaves its loop only on session teardown: while the
\* session lives, its watcher has not ended.
C9_WatcherSurvives ==
  \A c \in Conns : Live(c) /\ Sole(session_id[c]) => watcher_pc[c] # "done"

\* every connection that was given the session id has run its teardown
Destroyed(id) == Of(id) # {} /\ \A c \in Of(id) : ep_pc[c] \in {"closed", "error"}

\* C10: after the teardown of a session nothing is finalized for it: no
\* Utterance is marked processed or dispatched, and no history or ledger
\* entry of the session is written (by a step other than the acceptance of
\* a connection).
C10_NoFinalizeAfterTeardown ==
  [][ \A id \in Sessions :
        Destroyed(id) /\ session_id' = session_id
        => /\ \A i \in Refs(id) : heap'[id][i].processed = heap[id][i].processed
           /\ dispatched'[id] = dispatched[id]
           /\ ~Has(conversation_history', id)
           /\ ~Has(processed_segment_ids', id) ]_vars

\* the session was torn down while a turn was in flight
C10_Witness ==
  \E c \in Conns :
    /\ ep_pc[c] = "closed"
    /\ watcher_pc[c] = "cancelled"
    /\ w_turn[c] # NoTurn
    /\ heap[session_id[c]][w_turn[c].utterance].processed

\* the finally block of connection c runs in this step
TearsDown(c) == Live(c) /\ ep_pc'[c] \notin {"connecting", "streaming"}

\* the session id is in none of the module's dicts
Absent(id) ==
  /\ ~Has(processing_tasks, id) /\ ~Has(utterance_counter, id)
  /\ ~Has(current_utterances, id) /\ ~Has(processed_segment_ids, id)
  /\ ~Has(conversation_history, id) /\ ~Has(last_activity, id)

C12_WriteNotAborted ==
  [][ \A c \in Conns :
        /\ watcher_pc[c] = "await_store"
        /\ w_turn[c].intent = "Save"
        /\ Sole(session_id[c])
        /\ TearsDown(c)
        => watcher_pc'[c] = "await_store" ]_vars

\* C13: a malformed provider event is dropped and the relay goes on: after
\* such an event, while the connection lives, the relay still receives.
C13_MalformedDropped ==
  \A c \in Conns :
    r_msg[c] = BadMsg /\ Live(c) /\ Sole(session_id[c]) => relay_pc[c] = "recv"

\* C14: when the provider connection has closed or reported an error, the
\* connection's session is torn down in the end, whatever the client does.
C14_ProviderCloseTearsDown ==
  \A c \in Conns :
    (relay_pc[c] = "closed" /\ Sole(session_id[c])) ~> ~Live(c)

\* the pause watcher of c finalizes an Utterance in this step
Finalizes(c) ==
  /\ session_id[c] # "None"
  /\ watcher_pc[c] = "sleep"
  /\ Len(dispatched'[session_id[c]]) = Len(dispatched[session_id[c]]) + 1

\* C15: every audio frame of the client renews the session's last-activity
\* time: the watcher does not finalize at an instant at which an audio frame
\* has arrived (a frame younger than the pause threshold).
C15_AudioIsActivity ==
  [][ \A c \in Conns :
        Finalizes(c) /\ Sole(session_id[c]) => ~last_audio[c] ]_vars

\* the session lives: no connection that was given the id has torn down
Alive(id) == Of(id) # {} /\ \A c \in Of(id) : Live(c)

\* the Utterances of id that were answered: their reply is known
Answered(hp, id) == { i \in 1..Len(hp[id]) : hp[id][i].response # "" }

\* C16: while a session lives its history only grows, by one
\* ConversationTurn per answered Utterance: the turn is appended in the step
\* in which the Utterance's reply becomes known, and it carries the text that
\* was dispatched at finalization and that reply.
C16_OneTurnFrozenText ==
  [][ \A id \in Sessions :
        Alive(id) /\ Alive(id)'
        => LET h == conversation_history[id]
               h2 == conversation_history'[id]
           IN /\ Has(conversation_history', id)
              /\ Len(h2) \in {Len(h), Len(h) + 1}
              /\ SubSeq(h2, 1, Len(h)) = h
              /\ Len(h2) = Cardinality(Answered(heap', id))
              /\ Len(h2) = Len(h) + 1
                 => \E k \in DOMAIN dispatched'[id] :
                      LET e == dispatched'[id][k]
                      IN /\ e.result # "pending"
                         /\ Answered(heap', id) = Answered(heap, id) \cup {e.utterance}
                         /\ e.utterance \notin Answered(heap, id)
                         /\ h2[Len(h2)] = [utterance |-> e.text,
                                           response |-> Reply(e.result)]
                         /\ heap'[id][e.utterance].response = Reply(e.result) ]_vars

\* a batch that came while the turn was in flight changed the text of the
\* finalized Utterance; the turn in the history carries the text as it was
\* dispatched
C16_Witness ==
  \E id \in Sessions :
    /\ Alive(id)
    /\ \E k \in DOMAIN dispatched[id] :
         LET e == dispatched[id][k]
         IN /\ e.utterance \in Answered(heap, id)
            /\ heap[id][e.utterance].text # e.text
            /\ \E t \in DOMAIN conversation_history[id] :
                 conversation_history[id][t].utterance = e.text

\* C17: a Retrieve turn whose Memory Store query gives no memories is not an
\* error: when its store call is over the result is a Retrieve result (with
\* memories or with the empty list), never {"error"}, and with the empty
\* list the reply is returned, without a model call that could raise, and is
\* exactly the fixed apology string.
C17_NoMemoriesApology ==
  [][ \A id \in Sessions : \A k \in DOMAIN dispatched[id] :
        LET e == dispatched[id][k]
            e2 == dispatched'[id][k]
        IN e.intent = "Retrieve" /\ e.result = "pending" /\ e2.result # "pending"
           => /\ e2.result \in {"Retrieve", "RetrieveNone"}
              /\ e2.result = "RetrieveNone"
                 => heap'[id][e.utterance].response = NO_MEMORIES_REPLY ]_vars

\* a Retrieve turn found no memories and was answered with the apology
C17_Witness ==
  \E id \in Sessions : \E k \in DOMAIN dispatched[id] :
    /\ dispatched[id][k].intent = "Retrieve"
    /\ dispatched[id][k].result = "RetrieveNone"
    /\ heap[id][dispatched[id][k].utterance].response = NO_MEMORIES_REPLY
    /\ Has(conversation_history, id)
    /\ \E t \in DOMAIN conversation_history[id] :
         conversation_history[id][t].response = NO_MEMORIES_REPLY

\* C18: the Memory Store write of a Save turn is fire-and-forget: a failing
\* write does not turn the result of the turn into an error result.
C18_SaveFireAndForget ==
  \A id \in Sessions : \A k \in DOMAIN dispatched[id] :
    dispatched[id][k].intent = "Save" => dispatched[id][k].result # "error"

\* connection c is accepted in this step: its session is created
Creates(c) == ep_pc[c] = "idle" /\ ep_pc'[c] # "idle"

\* C19: right after a session is created its current Utterance has id 0, an
\* empty segment map, empty text and processed = false; its ledger is empty,
\* its counter 0, its history empty and its last-activity time the time of
\* creation.
C19_FreshSession ==
  [][ \A c \in Conns :
        Creates(c)
        => LET id == session_id'[c]
               u == heap'[id][current_utterances'[id]]
           IN /\ u.id = 0 /\ u.segments = <<>> /\ u.segment_ids = {}
              /\ u.text = <<>> /\ u.processed = FALSE
              /\ processed_segment_ids'[id] = {}
              /\ utterance_counter'[id] = 0
              /\ conversation_history'[id] = <<>>
              /\ last_activity'[id] = 0 ]_vars

\* a session has just been created: its watcher has its whole first sleep
\* before it and no time has passed
C19_Witness ==
  \E c \in Conns :
    /\ ep_pc[c] = "connecting"
    /\ instant = session_id[c]
    /\ watcher_pc[c] = "sleep" /\ w_timer[c] = Tenths(POLL_INTERVAL)
    /\ Has(utterance_counter, session_id[c])
    /\ utterance_counter[session_id[c]] = 0
    /\ last_activity[session_id[c]] = 0

\* C20: creating a session under an id that is in the registry is refused:
\* the entries of the id, its Utterances and its watcher task stay as they
\* are, and no second watcher is started.
C20_DuplicateRefused ==
  [][ \A c \in Conns :
        Creates(c) /\ Has(current_utterances, session_id'[c])
        => /\ globals' = globals
           /\ heap' = heap
           /\ watcher_pc' = watcher_pc ]_vars

\* the step is taken by a task of connection c: its relay handles a batch
\* (with or without a silence split), its watcher polls or ends a turn, or
\* its finally block runs
OnBehalfOf(c) ==
  \/ \E segments \in Batches : RelaySegments(c, segments)
  \/ RelayAfterWait(c)
  \/ WatcherPoll(c)
  \/ WatcherResume(c)
  \/ Teardown(c)

\* what the registry holds for the session of connection c: the current
\* Utterance, the ledger, the counter, the history, the last-activity time
\* and the watcher task
SessionOf(c, cur, hp, led, cnt, hist, act, tasks, wpc) ==
  LET id == session_id[c]
  IN << IF Has(cur, id) THEN << cur[id], hp[id][cur[id]] >> ELSE << >>,
        IF Has(led, id) THEN << led[id] >> ELSE << >>,
        IF Has(cnt, id) THEN << cnt[id] >> ELSE << >>,
        IF Has(hist, id) THEN << hist[id] >> ELSE << >>,
        IF Has(act, id) THEN << act[id] >> ELSE << >>,
        IF Has(tasks, id) THEN << tasks[id] >> ELSE << >>,
        wpc[c] >>

\* C21: sessions are independent: a step taken on behalf of one live
\* connection changes nothing of what another live connection's session
\* holds (current Utterance, ledger, counter, history, last-activity,
\* watcher task).
C21_Independent ==
  [][ \A c, d \in Conns :
        c # d /\ Live(c) /\ Live(d) /\ OnBehalfOf(c)
        => SessionOf(d, current_utterances', heap', processed_segment_ids',
                     utterance_counter', conversation_history',
                     last_activity', processing_tasks', watcher_pc')
           = SessionOf(d, current_utterances, heap, processed_segment_ids,
                       utterance_counter, conversation_history,
                       last_activity, processing_tasks, watcher_pc) ]_vars

\* the keys of the dict process_transcription returns, by the result the
\* log records for the call
ResultKeys(result) ==
  IF result = "Save"
  THEN {"intent", "type", "content", "title", "memory_metadata"}
  ELSE IF result \in {"Retrieve", "RetrieveNone"}
  THEN {"intent", "query", "filters", "results"}
  ELSE IF result = "Neither" THEN {"intent", "message"}
  ELSE {"error"}

\* C24: whatever the text and the intent, the result process_transcription
\* returns contains the keys "type", "content" and "metadata".
C24_ResultKeys ==
  \A id \in Sessions : \A k \in DOMAIN dispatched[id] :
    dispatched[id][k].result # "pending"
    => {"type", "content", "metadata"} \subseteq ResultKeys(dispatched[id][k].result)

\* the idle time the watcher computes for a session id: now minus
\* last_activity.get(session_id, 0)
IdleTime(id) == IF Has(last_activity, id) THEN last_activity[id] ELSE MaxIdle

\* the Utterance object u of session id goes from unprocessed to processed
\* in this step
MarkedProcessed(id, u) ==
  /\ u \in DOMAIN heap[id] /\ ~heap[id][u].processed
  /\ u \in DOMAIN heap'[id] /\ heap'[id][u].processed

\* C26: the watcher finalizes an Utterance only when, at the check, the idle
\* time is at least the pause threshold, the Utterance is the current one of
\* the session, its text is not blank and it is not processed; no Utterance
\* with blank text is ever marked processed or dispatched.
C26_FinalizeGuard ==
  [][ /\ \A c \in Conns :
           Finalizes(c)
           => LET id == session_id[c]
                  e == dispatched'[id][Len(dispatched'[id])]
              IN /\ IdleTime(id) >= Tenths(PAUSE_THRESHOLD)
                 /\ Has(current_utterances, id)
                 /\ e.utterance = current_utterances[id]
                 /\ ~heap[id][e.utterance].processed
                 /\ Truthy(strip(heap[id][e.utterance].text))
                 /\ e.text = heap[id][e.utterance].text
                 /\ heap'[id][e.utterance].processed
      /\ \A id \in Sessions : \A u \in 1..MaxUtterances :
           MarkedProcessed(id, u)
           => /\ Truthy(strip(heap[id][u].text))
              /\ Len(dispatched'[id]) = Len(dispatched[id]) + 1
              /\ dispatched'[id][Len(dispatched'[id])].utterance = u ]_vars

\* a finalization has just happened: the call is pending, the Utterance it
\* was made for is processed and the session has been idle for the threshold
C26_Witness ==
  \E id \in Sessions :
    /\ Len(dispatched[id]) >= 1
    /\ LET e == dispatched[id][Len(dispatched[id])]
       IN /\ e.result = "pending"
          /\ Truthy(strip(e.text))
          /\ Has(current_utterances, id) /\ current_utterances[id] = e.utterance
          /\ heap[id][e.utterance].processed
          /\ IdleTime(id) >= Tenths(PAUSE_THRESHOLD)

\* the Utterance object u is the current one of the session of the live
\* connection c, it has text that is not blank and it is not processed
OpenWithText(c, u) ==
  /\ Live(c) /\ Sole(session_id[c])
  /\ Has(current_utterances, session_id[c])
  /\ current_utterances[session_id[c]] = u
  /\ ~heap[session_id[c]][u].processed
  /\ Truthy(strip(heap[session_id[c]][u].text))

\* C27: in a live session a current Utterance with text that is not
\* processed does not stay so for ever once the batches have stopped: it is
\* eventually finalized (or the session ends), whatever happened to the
\* earlier turns of the session (as long as the session has room for the
\* Utterance that follows).
C27_EventuallyFinalized ==
  \A c \in Conns : \A u \in 1..MaxUtterances :
    []<>(~(OpenWithText(c, u) /\ Room(session_id[c])))

\* the relay of c handles a batch of segments in this step
HandlesBatch(c) == \E segments \in Batches : RelaySegments(c, segments)

\* the relay of c creates a new utterance in this step: the counter goes up
\* by one, an Utterance numbered by the new counter becomes the current one
\* and no Utterance that existed before is given a segment
Installs(c) ==
  LET id == session_id[c]
  IN /\ Has(utterance_counter', id) /\ Has(current_utterances', id)
     /\ utterance_counter'[id] = utterance_counter[id] + 1
     /\ Len(heap'[id]) = Len(heap[id]) + 1
     /\ current_utterances'[id] = Len(heap'[id])
     /\ heap'[id][Len(heap'[id])].id = utterance_counter[id] + 1
     /\ \A i \in 1..Len(heap[id]) : heap'[id][i].segments = heap[id][i].segments

\* the relay of c has decided to create a new utterance and waits 0.2 s
Waits(c) == relay_pc[c] # "force_wait" /\ relay_pc'[c] = "force_wait"

\* the batch changes neither the counter nor which Utterance is current
KeepsCurrent(c) ==
  /\ utterance_counter' = utterance_counter
  /\ current_utterances' = current_utterances

Applies(c, segments) ==
  /\ \/ RelaySegments(c, segments)
     \/ RelayAfterWait(c) /\ r_msg[c].segments = segments
  /\ relay_pc'[c] = "recv"

\* the text the batch gives for a segment id: that of its last segment of
\* the id
LastText(segments, sid) ==
  LET at == { k \in DOMAIN segments : segments[k].id = sid }
  IN segments[CHOOSE k \in at : \A j \in at : j <= k].text

\* C29: a segment whose id is not in the ledger can be revised: after a
\* batch is applied the segment map of the current Utterance holds, for every
\* such id of the batch, one entry with the text of this batch; the entries
\* of the other ids are as before; every claimed id has exactly one entry
\* and the text is derived from the entries as they now are.
C29_LatestText ==
  [][ \A c \in Conns : \A segments \in Batches :
        Applies(c, segments)
        => LET id == session_id[c]
               ledger == IF Has(processed_segment_ids, id)
                         THEN processed_segment_ids[id] ELSE {}
               cu == current_utterances'[id]
               before == IF cu <= Len(heap[id]) THEN heap[id][cu]
                         ELSE Utterance(0)
               after == heap'[id][cu]
               revised == { segments[k].id : k \in DOMAIN segments } \ ledger
           IN /\ \A sid \in revised :
                   Entries(after.segments, sid)
                     = {[id |-> sid, text |-> LastText(segments, sid)]}
              /\ \A sid \in SegIds \ revised :
                   Entries(after.segments, sid) = Entries(before.segments, sid)
              /\ after.segment_ids = before.segment_ids \cup revised
              /\ \A sid \in SegIds :
                   Cardinality({ i \in DOMAIN after.segments :
                                   after.segments[i].id = sid })
                     = IF sid \in after.segment_ids THEN 1 ELSE 0
              /\ after.text = join(values(after.segments)) ]_vars

\* two batches have been applied to the one open Utterance of a session and
\* its segment map holds one entry
C29_Witness ==
  \E c \in Conns :
    LET id == session_id[c]
    IN /\ Live(c) /\ Sole(id)
       /\ received >= 2 /\ relay_pc[c] = "recv" /\ last_transcript_time[c] = 0
       /\ Has(current_utterances, id)
       /\ current_utterances[id] = 1 /\ Len(heap[id]) = 1
       /\ ~heap[id][1].processed
       /\ Len(heap[id][1].segments) = 1
       /\ heap[id][1].text = heap[id][1].segments[1].text

\* the relay of c receives the provider's final checkpoint in this step
FinalCheckpoint(c) ==
  /\ relay_pc[c] = "recv"
  /\ sent'[c] # sent[c]
  /\ sent'[c].kind = "completed"

\* C23: on the final checkpoint the relay sends the completion marker, once,
\* and stops: after the marker the relay receives no provider event, so none
\* changes an Utterance, the counter or last-activity, and nothing more is
\* sent to the client.
C23_FinalStops ==
  [][ \A c \in Conns :
        /\ FinalCheckpoint(c)
           => /\ sent'[c].n = sent[c].n + 1
              /\ relay_pc'[c] \notin {"recv", "force_wait"}
              /\ heap' = heap /\ utterance_counter' = utterance_counter
              /\ last_activity' = last_activity
        /\ sent[c].kind = "completed"
           => /\ sent'[c] = sent[c]
              /\ relay_pc[c] \notin {"recv", "force_wait"}
              /\ relay_pc'[c] \notin {"recv", "force_wait"}
              /\ ~HandlesBatch(c) /\ ~RelayAfterWait(c) ]_vars

\* the marker has been sent after an interim transcript and the relay has
\* ended, in a session that lives on with its watcher
C23_Witness ==
  \E c \in Conns :
    /\ Live(c) /\ Sole(session_id[c])
    /\ sent[c].kind = "completed" /\ sent[c].n >= 2
    /\ relay_pc[c] = "done"
    /\ watcher_pc[c] \in {"sleep", "await_store"}

\* C30: for every batch the relay applies it sends the client exactly one
\* interim transcript, after the batch is applied and last-activity is
\* renewed: the message carries the text the current Utterance has after the
\* batch; nothing else makes the relay send a transcript.
C30_OneInterimPerBatch ==
  [][ \A c \in Conns :
        /\ \A segments \in Batches :
             Applies(c, segments)
             => LET id == session_id[c]
                IN /\ sent'[c].n = sent[c].n + 1
                   /\ sent'[c].kind = "transcript"
                   /\ sent'[c].text = heap'[id][current_utterances'[id]].text
                   /\ sent'[c].text
                        = join(values(heap'[id][current_utterances'[id]].segments))
                   /\ last_activity'[id] = 0
        /\ sent'[c] # sent[c] /\ sent'[c].kind = "transcript"
           => \E segments \in Batches : Applies(c, segments)
        /\ Waits(c) => sent'[c] = sent[c] ]_vars

\* the relay has just sent the second transcript of a session: the text of
\* the current Utterance, which holds two segments
C30_Witness ==
  \E c \in Conns :
    LET id == session_id[c]
    IN /\ Live(c) /\ Sole(id)
       /\ sent[c].kind = "transcript" /\ sent[c].n = 2
       /\ Has(current_utterances, id) /\ Has(last_activity, id)
       /\ last_activity[id] = 0
       /\ Len(heap[id][current_utterances[id]].segments) = 2
       /\ sent[c].text = heap[id][current_utterances[id]].text

\* a reply is produced for the session of c in this step: the response of
\* one of its Utterances is set
ProducesReply(c) ==
  /\ session_id[c] # "None"
  /\ \E u \in DOMAIN heap[session_id[c]] :
       /\ heap[session_id[c]][u].response = ""
       /\ heap'[session_id[c]][u].response # ""

\* C22: every message the server produces for the client of a session (an
\* interim transcript, the completion marker, a reply) goes out on the
\* session's one writer in the order of production: the step that produces
\* it appends it to what the client is sent.
C22_SingleWriterOrder ==
  [][ \A c \in Conns :
        /\ (\E segments \in Batches : Applies(c, segments))
           => sent'[c].n = sent[c].n + 1 /\ sent'[c].kind = "transcript"
        /\ FinalCheckpoint(c) => sent'[c].n = sent[c].n + 1
        /\ ProducesReply(c) /\ Sole(session_id[c]) /\ Live(c)
           => sent'[c].n = sent[c].n + 1 /\ sent'[c].kind = "reply" ]_vars

\* the chunks flushed so far, one after the other
RECURSIVE Spoken(_)
Spoken(chunks) ==
  IF chunks = <<>> THEN <<>> ELSE chunks[1] \o Spoken(Tail(chunks))

\* the step flushes a chunk
Flushes == Len(streamer'.chunks) = Len(streamer.chunks) + 1

\* the buffer ends a sentence that is long enough
SentenceEnd(buffer) ==
  /\ buffer # <<>>
  /\ buffer[Len(buffer)] \in Terminators
  /\ Len(buffer) >= MinLength

\* C25 (as stated): a chunk is flushed as soon as the buffer ends at a
\* terminator and has the minimum length; otherwise text is retained until
\* the maximum wait has elapsed or the stream ends; at the end of the stream
\* what is left in the buffer is flushed.
C25_RetainedUntilWaitOrEnd ==
  [][ /\ \A f \in Fragments :
           OnFragment(f)
           => /\ SentenceEnd(streamer.buffer \o f) => Flushes
              /\ Flushes => \/ SentenceEnd(streamer.buffer \o f)
                            \/ streamer.waited > MaxWait
      /\ EndOfStream /\ streamer.buffer # <<>>
           => streamer'.chunks = Append(streamer.chunks, streamer.buffer) ]_vars

\* C25 (amended): a chunk is flushed as soon as the buffer ends at a
\* terminator and has the minimum length, and it is the whole buffer; text
\* is otherwise retained until the buffer exceeds the maximum length, the
\* maximum wait has elapsed on a buffer above the smaller minimum, or the
\* stream ends; at the end of the stream what is left is flushed as one
\* chunk; no text is lost, repeated or reordered, and time alone flushes
\* nothing.
C25_FlushRule ==
  [][ /\ \A f \in Fragments :
           OnFragment(f)
           => LET buffer == streamer.buffer \o f
              IN /\ SentenceEnd(buffer)
                    => /\ streamer'.chunks = Append(streamer.chunks, buffer)
                       /\ streamer'.buffer = <<>>
                 /\ Flushes
                    => /\ \/ SentenceEnd(buffer)
                          \/ Len(buffer) > MaxLength
                          \/ /\ streamer.waited > MaxWait
                             /\ Len(buffer) > SmallMinLength
                       /\ streamer'.chunks[Len(streamer'.chunks)] # <<>>
                 /\ ~Flushes => streamer'.chunks = streamer.chunks
                 /\ Spoken(streamer'.chunks) \o streamer'.buffer
                      = Spoken(streamer.chunks) \o buffer
      /\ EndOfStream
           => /\ streamer'.buffer = <<>>
              /\ streamer'.chunks = IF streamer.buffer = <<>> THEN streamer.chunks
                                    ELSE Append(streamer.chunks, streamer.buffer)
      /\ Elapse => /\ streamer'.chunks = streamer.chunks
                   /\ streamer'.buffer = streamer.buffer ]_vars

\* a stream has ended with two chunks: a sentence flushed at its terminator
\* and the text after it, flushed at the end of the stream
C25_Witness ==
  /\ streamer.ended
  /\ Len(streamer.chunks) = 2
  /\ SentenceEnd(streamer.chunks[1])
  /\ streamer.chunks[2] # <<>>
  /\ streamer.chunks[2][Len(streamer.chunks[2])] \notin Terminators
  /\ Len(streamer.chunks[2]) <= MaxLength
  /\ streamer.waited <= MaxWait

\* C31: the end_time of an Utterance is None unless the Utterance is
\* processed: nothing sets end_time on an Utterance whose processed flag is
\* still false.
C31_EndTimeOnlyWhenProcessed ==
  \A id \in Sessions : \A u \in DOMAIN heap[id] :
    heap[id][u].end_time # "None" => heap[id][u].processed

\* the counter of a live session's id
Counter(id) == utterance_counter[id]

\* a new Utterance is installed as the current one of session id in this
\* step, by the watcher or by the relay (not by an accept)
InstallsNew(id) ==
  /\ Has(current_utterances, id) /\ Has(current_utterances', id)
  /\ current_utterances'[id] # current_utterances[id]
  /\ session_id' = session_id

\* C32: the counter of a session is 0 when the session is created; in every
\* other step in which the session exists it does not decrease, and it goes
\* up by exactly 1 when a new Utterance is installed, by the watcher or by
\* the relay, and not otherwise.
C32_CounterSteps ==
  [][ \A c \in Conns, id \in Sessions :
        /\ Creates(c) /\ session_id'[c] = id
           => Counter(id)' = 0
        /\ Has(utterance_counter, id) /\ Has(utterance_counter', id)
           /\ session_id' = session_id
           => /\ Counter(id)' >= Counter(id)
              /\ InstallsNew(id) => Counter(id)' = Counter(id) + 1
              /\ ~InstallsNew(id) => Counter(id)' = Counter(id) ]_vars

\* the relay and the watcher have each installed an Utterance in a session:
\* the counter is 2 and the current Utterance is the third of the session
C32_Witness ==
  \E c \in Conns :
    LET id == session_id[c]
    IN /\ Live(c) /\ Sole(id)
       /\ Has(utterance_counter, id) /\ Has(current_utterances, id)
       /\ utterance_counter[id] = 2
       /\ current_utterances[id] = 3
       /\ Len(dispatched[id]) = 1

\* the ledger of session id, empty when the id has no entry
Ledger(d, id) == IF Has(d, id) THEN d[id] ELSE {}

\* a turn of session id ends in this step: a ConversationTurn is appended
TurnEnds(id) ==
  /\ Has(conversation_history', id)
  /\ Len(conversation_history'[id])
       = (IF Has(conversation_history, id) THEN Len(conversation_history[id])
          ELSE 0) + 1

\* C33: while a session lives its ledger only grows, ids are added only
\* when a finalized turn ends, and every id in the ledger is claimed by an
\* Utterance that is processed.
C33_LedgerGrows ==
  [][ \A id \in Sessions :
        /\ Has(processed_segment_ids, id) /\ Alive(id) /\ Alive(id)'
           => /\ Has(processed_segment_ids', id)
              /\ processed_segment_ids[id] \subseteq processed_segment_ids'[id]
        /\ Ledger(processed_segment_ids', id)
             \ Ledger(processed_segment_ids, id) # {}
           => TurnEnds(id)
        /\ \A s \in Ledger(processed_segment_ids', id) :
             \E u \in DOMAIN heap'[id] :
               heap'[id][u].processed /\ s \in heap'[id][u].segment_ids ]_vars

\* two turns of a living session have ended and the ledger holds the ids of
\* both Utterances
C33_Witness ==
  \E id \in Sessions :
    /\ Alive(id) /\ Sole(id)
    /\ Has(processed_segment_ids, id) /\ Has(conversation_history, id)
    /\ Len(conversation_history[id]) = 2
    /\ Cardinality(processed_segment_ids[id]) = 2

\* C34: no text is lost at an utterance boundary: an Utterance whose text is
\* not blank is replaced as the current one of its session, by the relay or
\* by the watcher, only if it is processed and its text has been dispatched
\* to turn processing.
C34_NoTextLost ==
  [][ \A id \in Sessions :
        InstallsNew(id) /\ Regular(id)
        => LET old == current_utterances[id]
           IN Truthy(strip(heap'[id][old].text))
              => /\ heap'[id][old].processed
                 /\ DispatchCount(dispatched', id, old) >= 1 ]_vars

\* the Utterances of session id whose turn ends in this step
Ended(id) ==
  { u \in DOMAIN heap[id] :
      heap[id][u].response = "" /\ heap'[id][u].response # "" }

\* the call of process_transcription that was made for Utterance u
CallOf(log, id, u) ==
  log[id][CHOOSE k \in DOMAIN log[id] : log[id][k].utterance = u]

\* C35: the segment ids a finalized Utterance merges into the ledger are the
\* ids whose texts made up the text that was frozen and handed to turn
\* processing, and the ConversationTurn records that text.
C35_LedgerMatchesText ==
  [][ \A id \in Sessions : \A u \in Ended(id) :
        TurnEnds(id) /\ Regular(id)
        => LET call == CallOf(dispatched', id, u)
               turn == conversation_history'[id][Len(conversation_history'[id])]
           IN /\ turn.utterance = call.text
              /\ Ledger(processed_segment_ids', id)
                   = Ledger(processed_segment_ids, id) \cup call.ids
              /\ heap'[id][u].segment_ids = call.ids ]_vars

C37_GoneAfterTeardown ==
  \A id \in Sessions : Destroyed(id) => Absent(id)

\* the segment map, the claimed ids and the text of an Utterance
Content(u) == << u.segments, u.segment_ids, u.text >>

\* C38: applying a segment batch is idempotent: for every open Utterance,
\* every ledger and every batch, applying the batch to the Utterance twice in
\* succession (no split between) gives the segment map, the claimed ids and
\* the text that applying it once gives; so for the inline logic of main.py
\* and for process_segments of the service.
C38_ApplyTwice ==
  \A ledger \in SUBSET SegIds : \A segments \in Lists :
    /\ LET once == ApplySegments(pair.inline, segments, ledger)
       IN Content(ApplySegments(once, segments, ledger)) = Content(once)
    /\ LET once == process_segments(segments, pair.service, ledger)
       IN Content(process_segments(segments, once, ledger)) = Content(once)

\* an Utterance holds two segments after a batch of two segments was applied
\* to it, one of them of an id in the ledger and one that revised a text;
\* another batch would change its segment map and its text again
C38_Witness ==
  /\ Len(pair.inline.segments) = 2
  /\ Len(pair.batch) = 2
  /\ ~pair.inline_split
  /\ \E k \in 1..2 : pair.batch[k].id \in pair.ledger
  /\ \E k \in 1..2 : pair.batch[k].id \in pair.inline.segment_ids
  /\ \E segments \in Lists :
       LET once == ApplySegments(pair.inline, segments, pair.ledger)
       IN once.segments # pair.inline.segments /\ once.text # pair.inline.text

\* the relay of c applies the batch to the current Utterance as it is: no
\* silence split is triggered
AppliesInPlace(c, segments) ==
  /\ RelaySegments(c, segments)
  /\ Has(current_utterances, session_id[c])
  /\ ~ShouldSplit(last_transcript_time[c],
                  heap[session_id[c]][current_utterances[session_id[c]]])

\* the fields of an Utterance that a batch does not write
Rest(u) == << u.id, u.end_time, u.response, u.processed >>

\* C39: a segment batch that triggers no silence split changes, of the
\* session's data, only the segment map, the claimed ids and the text of the
\* current Utterance and the session's last-activity stamp: the ledger, the
\* conversation history, the utterance counter, the watcher registration,
\* which Utterance is current, every processed flag, the other fields of the
\* current Utterance and every other Utterance stay as they are.
C39_BatchFrame ==
  [][ \A c \in Conns : \A segments \in Batches :
        AppliesInPlace(c, segments)
        => LET id == session_id[c]
               cu == current_utterances[id]
           IN /\ processed_segment_ids' = processed_segment_ids
              /\ conversation_history' = conversation_history
              /\ utterance_counter' = utterance_counter
              /\ processing_tasks' = processing_tasks
              /\ current_utterances' = current_utterances
              /\ DOMAIN last_activity' = DOMAIN last_activity \cup {id}
              /\ DOMAIN heap'[id] = DOMAIN heap[id]
              /\ \A i \in Refs(id) :
                   /\ heap'[id][i].processed = heap[id][i].processed
                   /\ i # cu => heap'[id][i] = heap[id][i]
              /\ Rest(heap'[id][cu]) = Rest(heap[id][cu])
              /\ dispatched' = dispatched ]_vars

\* a batch was applied in place to a current Utterance that the watcher had
\* marked processed before: the Utterance holds two segments and a text that
\* differs from the text the watcher handed to the turn, and is processed still
C39_Witness ==
  \E c \in Conns :
    LET id == session_id[c]
    IN /\ Live(c) /\ Sole(id)
       /\ Has(current_utterances, id)
       /\ sent[c].kind = "transcript"
       /\ sent[c].text = heap[id][current_utterances[id]].text
       /\ w_turn[c] # NoTurn
       /\ w_turn[c].utterance = current_utterances[id]
       /\ heap[id][current_utterances[id]].processed
       /\ Len(heap[id][current_utterances[id]].segments) = 2
       /\ w_turn[c].text # heap[id][current_utterances[id]].text

\* C40: the refactored relay is equivalent to the inline one, each with its
\* own silence threshold: handling the same batches at the same distance of
\* the gap from the threshold and with the same ledger, the two have made the
\* same split decisions and hold Utterances of the same number, segment map,
\* claimed ids and text; and for every further ledger, gap and batch
\* should_create_new_utterance decides as the inline test does and
\* process_segments leaves the segment map, the claimed ids and the text that
\* the inline logic leaves.
C40_ServiceMatchesInline ==
  /\ pair.service_split = pair.inline_split
  /\ pair.service.id = pair.inline.id
  /\ Content(pair.service) = Content(pair.inline)
  /\ \A offset \in Offsets : ServiceSplit(offset) = InlineSplit(offset)
  /\ \A ledger \in SUBSET SegIds : \A segments \in Lists :
       Content(process_segments(segments, pair.service, ledger))
         = Content(ApplySegments(pair.inline, segments, ledger))

\* both relays have split on a batch of two segments, one of an id in the
\* ledger and one that they applied to the new Utterance
C40_Witness ==
  /\ pair.service_split /\ pair.inline_split
  /\ pair.service.id >= 1
  /\ Len(pair.batch) = 2
  /\ \E k \in 1..2 : pair.batch[k].id \in pair.ledger
  /\ Len(pair.service.segments) = 1
  /\ Truthy(strip(pair.service.text))
====
